---------------------------- MODULE Spec2Model ----------------------------
(***************************************************************************)
(* A model of latticegpm: the binary sequence-space enumeration and the    *)
(* random landscape searches of latticegpm/utils.py, and the thermodynamic *)
(* records of LatticeGenotypePhenotypeMap in latticegpm/gpm.py.            *)
(*                                                                         *)
(* A sequence is a TLA+ sequence of one-character strings.  A conformation *)
(* is an opaque token (a string); "" is the empty conformation the code    *)
(* seeds its minimum search with.                                          *)
(*                                                                         *)
(* Three specifications share the module's variables:                      *)
(*   SpecEnum    generate_binary_space on every pair of bounded sequences, *)
(*   SpecSearch  search_conformation_space / search_fitness_landscape,     *)
(*   SpecMap     the operations of one LatticeGenotypePhenotypeMap.        *)
(***************************************************************************)
EXTENDS Integers, Sequences, FiniteSets, Bags, TLC

VARIABLES
    \* ---- generate_binary_space -------------------------------------
    wildtype,        \* argument
    mutant,          \* argument
    enum_pc,         \* "call" | "returned" | "raised"
    sequence_space,  \* the returned list (<<>> while nothing is returned)
    enum_err,        \* the exception raised ("none" otherwise)
    \* ---- search_conformation_space / search_fitness_landscape ------
    search_fn,       \* "idle" | "conformation" | "fitness"
    length,          \* Conformations.Length() / Fitness.Length()
    threshold,       \* argument
    max_iter,        \* argument
    counter,         \* local: draws made so far
    sequences,       \* local: the accepted candidates
    scores,          \* history: the oracle's score of each accepted candidate
    search_pc,       \* "loop" | "returned" | "raised"
    \* ---- LatticeGenotypePhenotypeMap -------------------------------
    genotypes,       \* self.genotypes
    energy,          \* the table fold_energy computes: [genotype, conf] -> energy
    attrs,           \* the attributes the object has, among MapAttrs
    target_conf,     \* self.target_conf (NoneConf for None)
    partition_confs, \* self.partition_confs
    nativeEs,        \* self._nativeEs
    confs,           \* self._confs
    partition_sum,   \* self._partition_sum
    folded,          \* self._folded
    last_op,         \* the last operation called on the map
    last_err,        \* the exception it raised ("none" if it returned)
    oracle_out,      \* history: what the fold oracle returned in the last fold
    ops              \* the number of operations called so far

enumVars   == <<wildtype, mutant, enum_pc, sequence_space, enum_err>>
searchVars == <<search_fn, length, threshold, max_iter, counter, sequences,
                scores, search_pc>>
mapVars    == <<genotypes, energy, attrs, target_conf, partition_confs,
                nativeEs, confs, partition_sum, folded, last_op, last_err,
                oracle_out, ops>>
vars       == <<enumVars, searchVars, mapVars>>

-----------------------------------------------------------------------------
(* Bounds *)

MaxLen == 3

\* The residues sequences are drawn from.
Alphabet == {"A", "B", "C"}

RECURSIVE Pow2(_)
Pow2(k) == IF k = 0 THEN 1 ELSE 2 * Pow2(k - 1)

\* All sequences over S of length n, and of length lo..hi.
SeqsOfLen(S, n) == [1..n -> S]
SeqsUpTo(S, lo, hi) == UNION {SeqsOfLen(S, n) : n \in lo..hi}

-----------------------------------------------------------------------------
(* latticeproteins.sequences.HammingDistance: the number of positions at   *)
(* which two sequences of equal length differ.                             *)
HammingDistance(seq1, seq2) ==
    Cardinality({i \in 1..Len(seq1) : seq1[i] # seq2[i]})

-----------------------------------------------------------------------------
(* generate_binary_space *)

\* itertools.product(chars, repeat=r): tuples in the order product yields
\* them, the rightmost position advancing fastest.
RECURSIVE Product(_, _)
Product(chars, r) ==
    IF r = 0 THEN << <<>> >>
    ELSE LET shorter == Product(chars, r - 1)
             n == Len(chars)
         IN  [k \in 1..(Len(shorter) * n) |->
                 Append(shorter[((k - 1) \div n) + 1], chars[((k - 1) % n) + 1])]

\* The code point order of the characters '0' and '1'.
Ord(c) == IF c = "0" THEN 48 ELSE 49

\* Python's str.__lt__: lexicographic order by code point.
RECURSIVE StrLess(_, _)
StrLess(a, b) ==
    IF Len(b) = 0 THEN FALSE
    ELSE IF Len(a) = 0 THEN TRUE
    ELSE IF Ord(Head(a)) # Ord(Head(b)) THEN Ord(Head(a)) < Ord(Head(b))
    ELSE StrLess(Tail(a), Tail(b))

\* sorted(["".join(list(s)) for s in it.product('01', repeat=L)])
Binaries(L) == SortSeq(Product(<<"0", "1">>, L), StrLess)

\* A mutant of BuildSequence: the bit convention inverted.
BuildSequenceInverted(b, wt, mut) ==
    [i \in 1..Len(wt) |-> IF b[i] = "0" THEN mut[i] ELSE wt[i]]

\* The inner loop: the wildtype's character for bit '0', the mutant's otherwise.
BuildSequence(b, wt, mut) ==
    [i \in 1..Len(wt) |-> IF b[i] = "0" THEN wt[i] ELSE mut[i]]

\* The loop over the binaries.
BinarySpace(wt, mut) ==
    LET binaries == Binaries(Len(wt))
    IN  [k \in 1..Len(binaries) |-> BuildSequence(binaries[k], wt, mut)]

LengthMismatch == "IndexError: ancestor_sequence and derived sequence must be the same length."
DivergenceException == "Exception: Wildtype and mutant must differ at all sites."

\* A mutant of generate_binary_space: the divergence check passes as soon as
\* the sequences differ somewhere.
generate_binary_space_lax(wt, mut) ==
    IF Len(wt) # Len(mut)
    THEN [pc |-> "raised", value |-> <<>>, err |-> LengthMismatch]
    ELSE IF HammingDistance(wt, mut) = 0 /\ Len(wt) # 0
    THEN [pc |-> "raised", value |-> <<>>, err |-> DivergenceException]
    ELSE [pc |-> "returned", value |-> BinarySpace(wt, mut), err |-> "none"]

\* The outcome of generate_binary_space(wt, mut).
generate_binary_space(wt, mut) ==
    IF Len(wt) # Len(mut)
    THEN [pc |-> "raised", value |-> <<>>, err |-> LengthMismatch]
    ELSE IF HammingDistance(wt, mut) # Len(wt)
    THEN [pc |-> "raised", value |-> <<>>, err |-> DivergenceException]
    ELSE [pc |-> "returned", value |-> BinarySpace(wt, mut), err |-> "none"]

-----------------------------------------------------------------------------
(* SpecEnum: generate_binary_space called once on a bounded pair. *)

InitEnumIdle ==
    /\ wildtype = <<>>
    /\ mutant = <<>>
    /\ enum_pc = "idle"
    /\ sequence_space = <<>>
    /\ enum_err = "none"

GenerateBinarySpace ==
    /\ enum_pc = "call"
    /\ LET out == generate_binary_space(wildtype, mutant)
       IN  /\ enum_pc' = out.pc
           /\ sequence_space' = out.value
           /\ enum_err' = out.err
    /\ UNCHANGED <<wildtype, mutant, searchVars, mapVars>>

-----------------------------------------------------------------------------
(* search_conformation_space / search_fitness_landscape *)

SearchLen == 2
MaxIter == 3

\* The values an oracle's score and the threshold are drawn from.
Scores == {-1, 0, 1}

\* HammingDistance(sequences[0], sequence) is length.  The lengths here are
\* small integers, for which CPython's identity test is equality.
FullyDivergent(first, sequence, len) ==
    HammingDistance(first, sequence) = len

\* The threshold test: energy < threshold for the conformation search,
\* fitness > threshold for the fitness search.
Accepts(fn, score, thr) ==
    IF fn = "conformation" THEN score < thr ELSE score > thr

\* One pass through the body of the while loop, the oracle having scored the
\* drawn sequence with score.
LoopBody(fn, sequence, score) ==
    /\ IF Accepts(fn, score, threshold)
       THEN IF Len(sequences) > 0
            THEN IF FullyDivergent(sequences[1], sequence, length)
                 THEN /\ sequences' = Append(sequences, sequence)
                      /\ scores' = Append(scores, score)
                 ELSE UNCHANGED <<sequences, scores>>
            ELSE /\ sequences' = Append(sequences, sequence)
                 /\ scores' = Append(scores, score)
       ELSE UNCHANGED <<sequences, scores>>
    /\ counter' = counter + 1

\* The while condition.
LoopGuard == Len(sequences) < 2 /\ counter < max_iter

\* After the loop: raise Exception("Random search reached max iterations
\* before finding satisfying sequences.") if counter == max_iter, otherwise
\* return sequences.
AfterLoop ==
    search_pc' = IF counter = max_iter THEN "raised" ELSE "returned"

InitSearchIdle ==
    /\ search_fn = "idle"
    /\ length = 0
    /\ threshold = 0
    /\ max_iter = 0
    /\ counter = 0
    /\ sequences = <<>>
    /\ scores = <<>>
    /\ search_pc = "idle"

\* The state on entry to either search.  Nothing validates max_iter: a
\* negative budget is a budget the code accepts.
InitSearch ==
    /\ search_fn \in {"conformation", "fitness"}
    /\ length \in 1..SearchLen
    /\ threshold \in Scores
    /\ max_iter \in (-1)..MaxIter
    /\ counter = 0
    /\ sequences = <<>>
    /\ scores = <<>>
    /\ search_pc = "loop"

search_conformation_space_draw ==
    /\ search_fn = "conformation"
    /\ search_pc = "loop"
    /\ LoopGuard
    /\ \E sequence \in SeqsOfLen(Alphabet, length), e \in Scores :
           LoopBody("conformation", sequence, e)
    /\ UNCHANGED <<search_fn, length, threshold, max_iter, search_pc,
                   enumVars, mapVars>>

search_conformation_space_exit ==
    /\ search_fn = "conformation"
    /\ search_pc = "loop"
    /\ ~LoopGuard
    /\ AfterLoop
    /\ UNCHANGED <<search_fn, length, threshold, max_iter, counter, sequences,
                   scores, enumVars, mapVars>>

search_fitness_landscape_draw ==
    /\ search_fn = "fitness"
    /\ search_pc = "loop"
    /\ LoopGuard
    /\ \E sequence \in SeqsOfLen(Alphabet, length), f \in Scores :
           LoopBody("fitness", sequence, f)
    /\ UNCHANGED <<search_fn, length, threshold, max_iter, search_pc,
                   enumVars, mapVars>>

search_fitness_landscape_exit ==
    /\ search_fn = "fitness"
    /\ search_pc = "loop"
    /\ ~LoopGuard
    /\ AfterLoop
    /\ UNCHANGED <<search_fn, length, threshold, max_iter, counter, sequences,
                   scores, enumVars, mapVars>>

-----------------------------------------------------------------------------
(* LatticeGenotypePhenotypeMap *)

MaxOps == 2

\* The wildtype and mutant the modelled map is built between.
MapWildtype == <<"A">>
MapMutant == <<"B">>

\* Conformations are opaque tokens; NoneConf stands for Python's None.
Confs == {"c1", "c2"}
NoneConf == "None"

\* The values fold_energy takes.
Energies == {-1, 0, 1}

\* The attributes an instance may or may not have.
RecordAttrs == {"nativeEs", "confs", "partition_sum", "folded"}
MapAttrs == RecordAttrs \cup {"target_conf", "interaction_energies"}

\* np.exp(-fe/self.temperature), kept as a formal term: a partition sum is
\* the bag of the energies whose Boltzmann terms were added, and two sums
\* are equal exactly when the bags are.
Boltzmann(fe) == SetToBag({fe})

\* latticegpm.thermo.fold_energy(genotype, conf, interaction_energies)
fold_energy(genotype, conf) == energy[genotype, conf]

\* The instance as one value.
Self ==
    [genotypes |-> genotypes, attrs |-> attrs, target_conf |-> target_conf,
     partition_confs |-> partition_confs, nativeEs |-> nativeEs,
     confs |-> confs, partition_sum |-> partition_sum, folded |-> folded]

\* self.n
N(self) == Len(self.genotypes)

\* A running call: the instance, the function's local `folded` (unbound until
\* first assigned) and the exception raised so far.
Running(self) ==
    [self |-> self, loc |-> [bound |-> FALSE, val |-> FALSE], err |-> "none"]

Raise(st, e) == [st EXCEPT !.err = e]

\* Reading self.<attr>.
GetAttr(st, attr) ==
    IF st.err # "none" THEN st
    ELSE IF attr \notin st.self.attrs THEN Raise(st, "AttributeError")
    ELSE st

\* self.<attr>[i] = v, for the i-th genotype (1-based here).
SetItem(st, attr, i, v) ==
    IF st.err # "none" THEN st
    ELSE IF attr \notin st.self.attrs THEN Raise(st, "AttributeError")
    ELSE IF i > Len(st.self[attr]) THEN Raise(st, "IndexError")
    ELSE [st EXCEPT !.self[attr][i] = v]

\* The loop over conf_list for one genotype, from the k-th conformation on.
\* acc holds the locals z, min_conf, min_energy and folded.
RECURSIVE ConfLoop(_, _, _, _)
ConfLoop(genotype, conf_list, k, acc) ==
    IF k > Len(conf_list) THEN acc
    ELSE LET conf == conf_list[k]
             fe == fold_energy(genotype, conf)
             z == acc.z (+) Boltzmann(fe)
         IN  ConfLoop(genotype, conf_list, k + 1,
                 IF fe < acc.min_energy
                 THEN [z |-> z, min_energy |-> fe, min_conf |-> conf,
                       loc |-> [bound |-> TRUE, val |-> TRUE]]
                 ELSE IF fe = acc.min_energy
                 THEN [acc EXCEPT !.z = z,
                                  !.loc = [bound |-> TRUE, val |-> FALSE]]
                 ELSE [acc EXCEPT !.z = z])

\* The locals after the loop over conf_list: z = 0, min_conf = "" and
\* min_energy = 0 before it; folded is whatever the function's local held.
ScoreGenotype(genotype, conf_list, loc) ==
    ConfLoop(genotype, conf_list, 1,
             [z |-> EmptyBag, min_energy |-> 0, min_conf |-> "", loc |-> loc])

\* The body of the loop over genotypes, for the i-th genotype.
RecalculateGenotype(st, i, conf_list) ==
    IF st.err # "none" THEN st
    ELSE IF conf_list # <<>> /\ "interaction_energies" \notin st.self.attrs
    THEN Raise(st, "AttributeError")
    ELSE LET r  == ScoreGenotype(st.self.genotypes[i], conf_list, st.loc)
             s1 == SetItem([st EXCEPT !.loc = r.loc], "partition_sum", i, r.z)
             s2 == GetAttr(s1, "target_conf")
         IN  IF s2.err # "none" \/ s2.self.target_conf # NoneConf THEN s2
             ELSE LET s3 == SetItem(s2, "nativeEs", i, r.min_energy)
                      s4 == IF s3.err = "none" /\ ~r.loc.bound
                            THEN Raise(s3, "UnboundLocalError")
                            ELSE SetItem(s3, "folded", i, r.loc.val)
                  IN  SetItem(s4, "confs", i, r.min_conf)

RECURSIVE RecalculateLoop(_, _, _)
RecalculateLoop(st, i, conf_list) ==
    IF i > N(st.self) \/ st.err # "none" THEN st
    ELSE RecalculateLoop(RecalculateGenotype(st, i, conf_list), i + 1, conf_list)

\* recalculate_partition_sum(self, conf_list)
recalculate_partition_sum(self, conf_list) ==
    RecalculateLoop(Running([self EXCEPT !.partition_confs = conf_list]),
                    1, conf_list)

\* set_partition_confs(self, confs).  The attribute partition_confs_ it also
\* sets is read nowhere and is not kept.
set_partition_confs(self, conf_list) ==
    recalculate_partition_sum(self, conf_list)

\* A mutant of TargetGenotype: the native conformation is left as it was.
TargetGenotypeEnergyOnly(st, i) ==
    LET s1 == GetAttr(st, "interaction_energies")
    IN  SetItem(s1, "nativeEs", i,
                fold_energy(st.self.genotypes[i], st.self.target_conf))

\* The body of set_target_conf's loop, for the i-th genotype.
TargetGenotype(st, i) ==
    LET s1 == GetAttr(st, "interaction_energies")
        s2 == SetItem(s1, "nativeEs", i,
                      fold_energy(st.self.genotypes[i], st.self.target_conf))
    IN  SetItem(s2, "confs", i, st.self.target_conf)

RECURSIVE TargetLoop(_, _)
TargetLoop(st, i) ==
    IF i > N(st.self) \/ st.err # "none" THEN st
    ELSE TargetLoop(TargetGenotype(st, i), i + 1)

\* set_target_conf(self, target_conf)
set_target_conf(self, target) ==
    TargetLoop(Running([self EXCEPT !.target_conf = target,
                                    !.attrs = @ \cup {"target_conf"}]), 1)

NoScoringSource == "Exception: Not to give conf_list or Conformations object"

\* What np.empty may hand back for the four arrays of n entries.  The entries
\* are whatever the memory held: pages the allocator zeroed, or the bytes of
\* arrays freed earlier.
Uninitialised(n) ==
    {[nativeEs |-> [i \in 1..n |-> 0],
      confs |-> [i \in 1..n |-> ""],
      partition_sum |-> [i \in 1..n |-> EmptyBag],
      folded |-> [i \in 1..n |-> FALSE]],
     [nativeEs |-> [i \in 1..n |-> 1],
      confs |-> [i \in 1..n |-> "c1"],
      partition_sum |-> [i \in 1..n |-> Boltzmann(0)],
      folded |-> [i \in 1..n |-> TRUE]]}

\* What Conformations.fold_sequence may return for one genotype:
\* (native energy, native conformation, partition sum, folded).
OracleRecords ==
    {[nativeE |-> -1, conf |-> "c1", z |-> Boltzmann(-1) (+) Boltzmann(0),
      folded |-> TRUE],
     [nativeE |-> 0, conf |-> "c2", z |-> Boltzmann(0) (+) Boltzmann(0),
      folded |-> FALSE]}

\* The oracle branch of fold: the loop over the genotypes.
FoldWithOracle(self, out) ==
    [self EXCEPT !.nativeEs = [i \in 1..N(self) |-> out[i].nativeE],
                 !.confs = [i \in 1..N(self) |-> out[i].conf],
                 !.partition_sum = [i \in 1..N(self) |-> out[i].z],
                 !.folded = [i \in 1..N(self) |-> out[i].folded]]

\* The end of fold: set the target conformation if one is given.
FoldTarget(st) ==
    LET s1 == GetAttr(st, "target_conf")
    IN  IF s1.err # "none" \/ s1.self.target_conf = NoneConf THEN s1
        ELSE set_target_conf(s1.self, s1.self.target_conf)

\* fold(self, conf_list, Conformations).  source says which argument is given
\* ("conf_list", "Conformations" or "neither"), out is what the oracle
\* returns and fresh what np.empty hands back.
fold(self, source, conf_list, out, fresh) ==
    LET s0 == [self EXCEPT !.nativeEs = fresh.nativeEs,
                           !.confs = fresh.confs,
                           !.partition_sum = fresh.partition_sum,
                           !.folded = fresh.folded,
                           !.attrs = @ \cup RecordAttrs]
    IN  IF source = "conf_list"
        THEN FoldTarget(recalculate_partition_sum(s0, conf_list))
        ELSE IF source = "Conformations"
        THEN FoldTarget(Running(FoldWithOracle(s0, out)))
        ELSE Raise(Running(s0), NoScoringSource)

\* The fields from_json requires, in the order it checks them.
necessary_args ==
    <<"wildtype", "genotypes", "nativeEs", "partition_sum", "confs", "folded",
      "phenotype_type", "temperature", "mutations">>

Range(f) == {f[i] : i \in DOMAIN f}

\* The first required field a file lacks (0 if none).
FirstMissing(keys) ==
    LET missing == {k \in 1..Len(necessary_args) : necessary_args[k] \notin keys}
    IN  IF missing = {} THEN 0
        ELSE CHOOSE k \in missing : \A j \in missing : k <= j

\* Exception(arg + " not in json."), for the k-th required field.
MissingField(k) ==
    <<"Exception: wildtype not in json.", "Exception: genotypes not in json.",
      "Exception: nativeEs not in json.", "Exception: partition_sum not in json.",
      "Exception: confs not in json.", "Exception: folded not in json.",
      "Exception: phenotype_type not in json.",
      "Exception: temperature not in json.",
      "Exception: mutations not in json.">>[k]

\* from_json(filename): the instance built from the file's data, or the
\* exception naming the first missing field.  Every key of the file becomes
\* an attribute; nothing checks the lists' lengths.
from_json(self, data) ==
    IF FirstMissing(data.keys) # 0
    THEN Raise(Running(self), MissingField(FirstMissing(data.keys)))
    ELSE Running([genotypes |-> data.genotypes,
                  attrs |-> data.keys \cap MapAttrs,
                  target_conf |-> IF "target_conf" \in data.keys
                                  THEN data.target_conf ELSE NoneConf,
                  partition_confs |-> <<>>,
                  nativeEs |-> data.nativeEs,
                  confs |-> data.confs,
                  partition_sum |-> data.partition_sum,
                  folded |-> data.folded])

\* The property setters: self._<attr> = value.
SetRecord(self, attr, value) ==
    Running([self EXCEPT ![attr] = value, !.attrs = @ \cup {attr}])

-----------------------------------------------------------------------------
(* SpecMap: the operations of one map, MaxOps calls at most. *)

MaxConfs == 2

\* The conformation lists callers pass.
ConfLists == SeqsUpTo(Confs, 0, MaxConfs)

\* The genotypes of the binary map between MapWildtype and MapMutant.
GenotypeSpace == generate_binary_space(MapWildtype, MapMutant).value

\* The arrays callers hand to the setters: of the map's size, one shorter
\* and one longer.
ArrayInputs(S, n) == SeqsUpTo(S, n - 1, n + 1)

\* The files from_json is given: complete or lacking required fields, with or
\* without the optional attributes, the native energies of the map's size or
\* one short.
JsonFiles ==
    LET required == Range(necessary_args)
        n == Len(GenotypeSpace)
    IN  {[keys |-> k, genotypes |-> GenotypeSpace, nativeEs |-> e,
          partition_sum |-> [i \in 1..n |-> Boltzmann(0)],
          confs |-> [i \in 1..n |-> "c1"],
          folded |-> [i \in 1..n |-> TRUE],
          target_conf |-> "c1"] :
            k \in {required, required \ {"confs"},
                   required \ {"nativeEs", "folded"},
                   required \cup {"interaction_energies"},
                   required \cup {"target_conf", "interaction_energies"}},
            e \in SeqsUpTo({0}, n - 1, n)}

InitMapIdle ==
    /\ genotypes = <<>>
    /\ energy = <<>>
    /\ attrs = {}
    /\ target_conf = NoneConf
    /\ partition_confs = <<>>
    /\ nativeEs = <<>>
    /\ confs = <<>>
    /\ partition_sum = <<>>
    /\ folded = <<>>
    /\ last_op = "idle"
    /\ last_err = "none"
    /\ oracle_out = <<>>
    /\ ops = 0

\* The instance __init__ leaves: genotypes enumerated, no record array yet.
InitMap ==
    /\ genotypes = GenotypeSpace
    /\ energy \in [Range(GenotypeSpace) \X Confs -> Energies]
    /\ attrs = {"target_conf", "interaction_energies"}
    /\ target_conf \in Confs \cup {NoneConf}
    /\ partition_confs = <<>>
    /\ nativeEs = <<>>
    /\ confs = <<>>
    /\ partition_sum = <<>>
    /\ folded = <<>>
    /\ last_op = "__init__"
    /\ last_err = "none"
    /\ oracle_out = <<>>
    /\ ops = 0

\* The instance and the call's outcome after an operation.
Becomes(st, op) ==
    /\ genotypes' = st.self.genotypes
    /\ attrs' = st.self.attrs
    /\ target_conf' = st.self.target_conf
    /\ partition_confs' = st.self.partition_confs
    /\ nativeEs' = st.self.nativeEs
    /\ confs' = st.self.confs
    /\ partition_sum' = st.self.partition_sum
    /\ folded' = st.self.folded
    /\ last_op' = op
    /\ last_err' = st.err
    /\ ops' = ops + 1
    /\ UNCHANGED <<energy, enumVars, searchVars>>

FoldConfList ==
    /\ ops < MaxOps
    /\ \E conf_list \in ConfLists, fresh \in Uninitialised(N(Self)) :
           Becomes(fold(Self, "conf_list", conf_list, <<>>, fresh),
                   "fold(conf_list)")
    /\ UNCHANGED oracle_out

FoldConformations ==
    /\ ops < MaxOps
    /\ \E out \in SeqsOfLen(OracleRecords, N(Self)),
          fresh \in Uninitialised(N(Self)) :
           /\ Becomes(fold(Self, "Conformations", <<>>, out, fresh),
                      "fold(Conformations)")
           /\ oracle_out' = out

FoldNeither ==
    /\ ops < MaxOps
    /\ \E fresh \in Uninitialised(N(Self)) :
           Becomes(fold(Self, "neither", <<>>, <<>>, fresh), "fold()")
    /\ UNCHANGED oracle_out

SetPartitionConfs ==
    /\ ops < MaxOps
    /\ \E conf_list \in ConfLists :
           Becomes(set_partition_confs(Self, conf_list), "set_partition_confs")
    /\ UNCHANGED oracle_out

RecalculatePartitionSum ==
    /\ ops < MaxOps
    /\ \E conf_list \in ConfLists :
           Becomes(recalculate_partition_sum(Self, conf_list),
                   "recalculate_partition_sum")
    /\ UNCHANGED oracle_out

SetTargetConf ==
    /\ ops < MaxOps
    /\ \E target \in Confs :
           Becomes(set_target_conf(Self, target), "set_target_conf")
    /\ UNCHANGED oracle_out

SetNativeEs ==
    /\ ops < MaxOps
    /\ \E value \in ArrayInputs({0}, N(Self)) :
           Becomes(SetRecord(Self, "nativeEs", value), "nativeEs.setter")
    /\ UNCHANGED oracle_out

SetPartitionSum ==
    /\ ops < MaxOps
    /\ \E value \in ArrayInputs({Boltzmann(0)}, N(Self)) :
           Becomes(SetRecord(Self, "partition_sum", value),
                   "partition_sum.setter")
    /\ UNCHANGED oracle_out

SetConfs ==
    /\ ops < MaxOps
    /\ \E value \in ArrayInputs({"c1"}, N(Self)) :
           Becomes(SetRecord(Self, "confs", value), "confs.setter")
    /\ UNCHANGED oracle_out

SetFolded ==
    /\ ops < MaxOps
    /\ \E value \in ArrayInputs({TRUE}, N(Self)) :
           Becomes(SetRecord(Self, "folded", value), "folded.setter")
    /\ UNCHANGED oracle_out

FromJson ==
    /\ ops < MaxOps
    /\ \E data \in JsonFiles : Becomes(from_json(Self, data), "from_json")
    /\ UNCHANGED oracle_out

-----------------------------------------------------------------------------
(* The specifications *)

InitEnum ==
    /\ wildtype \in SeqsUpTo(Alphabet, 0, MaxLen)
    /\ mutant \in SeqsUpTo(Alphabet, 0, MaxLen)
    /\ enum_pc = "call"
    /\ sequence_space = <<>>
    /\ enum_err = "none"
    /\ InitSearchIdle
    /\ InitMapIdle

NextEnum == GenerateBinarySpace

SpecEnum == InitEnum /\ [][NextEnum]_vars

InitSearchSpec == InitEnumIdle /\ InitSearch /\ InitMapIdle

NextSearch ==
    \/ search_conformation_space_draw
    \/ search_conformation_space_exit
    \/ search_fitness_landscape_draw
    \/ search_fitness_landscape_exit

SpecSearch == InitSearchSpec /\ [][NextSearch]_vars

InitMapSpec == InitEnumIdle /\ InitSearchIdle /\ InitMap

NextMap ==
    \/ FoldConfList
    \/ FoldConformations
    \/ FoldNeither
    \/ SetPartitionConfs
    \/ RecalculatePartitionSum
    \/ SetTargetConf
    \/ SetNativeEs
    \/ SetPartitionSum
    \/ SetConfs
    \/ SetFolded
    \/ FromJson

SpecMap == InitMapSpec /\ [][NextMap]_vars

-----------------------------------------------------------------------------
(* Claims about generate_binary_space, under SpecEnum *)

\* Bit j (1 the leftmost) of the L-bit binary numeral of i: the j-th character
\* of the i-th L-bit binary string in ascending lexicographic order.
Bit(i, j, L) == (i \div Pow2(L - j)) % 2

DifferEverywhere(a, b) ==
    Len(a) = Len(b) /\ \A j \in 1..Len(a) : a[j] # b[j]

\* C1: for a wildtype and a mutant of equal length L that differ at every
\* site, generate_binary_space returns exactly 2^L sequences, pairwise
\* distinct, each of length L, and character j of the i-th one is the
\* mutant's where bit j of the i-th binary string is 1 and the wildtype's
\* otherwise.
C1_BinarySpace ==
    (enum_pc # "call" /\ DifferEverywhere(wildtype, mutant)) =>
        LET L == Len(wildtype)
        IN  /\ enum_pc = "returned"
            /\ Len(sequence_space) = Pow2(L)
            /\ \A a, b \in 1..Len(sequence_space) :
                   a # b => sequence_space[a] # sequence_space[b]
            /\ \A i \in 0..(Pow2(L) - 1) :
                   /\ Len(sequence_space[i + 1]) = L
                   /\ \A j \in 1..L :
                          sequence_space[i + 1][j] =
                              IF Bit(i, j, L) = 1 THEN mutant[j] ELSE wildtype[j]

\* A space of eight sequences whose first is the wildtype and last the mutant.
C1_Witness ==
    /\ enum_pc = "returned"
    /\ Len(wildtype) = 3
    /\ sequence_space[1] = wildtype
    /\ sequence_space[8] = mutant

\* C8: generate_binary_space raises the length error when the lengths
\* differ, and the divergence error when the lengths are equal but some site
\* is the same in both; in both cases no list is returned.
C8_Errors ==
    enum_pc # "call" =>
        /\ Len(wildtype) # Len(mutant) =>
               /\ enum_pc = "raised"
               /\ enum_err = LengthMismatch
               /\ sequence_space = <<>>
        /\ (Len(wildtype) = Len(mutant) /\ ~DifferEverywhere(wildtype, mutant)) =>
               /\ enum_pc = "raised"
               /\ enum_err = DivergenceException
               /\ sequence_space = <<>>

\* The divergence error on a pair that differs at some sites but not at all.
C8_Witness ==
    /\ enum_pc = "raised"
    /\ enum_err = DivergenceException
    /\ Len(wildtype) = Len(mutant)
    /\ \E j \in 1..Len(wildtype) : wildtype[j] # mutant[j]
    /\ \E j \in 1..Len(wildtype) : wildtype[j] = mutant[j]

-----------------------------------------------------------------------------
(* Claims about the landscape searches, under SpecSearch *)

Satisfies(score) ==
    IF search_fn = "conformation" THEN score < threshold ELSE score > threshold

C2_Returned ==
    search_pc = "returned" =>
        /\ Len(sequences) = 2
        /\ Len(scores) = 2
        /\ Satisfies(scores[1]) /\ Satisfies(scores[2])
        /\ Len(sequences[1]) = length
        /\ DifferEverywhere(sequences[1], sequences[2])

C2_Step ==
    /\ Len(sequences) >= 1 =>
           Len(sequences') >= 1 /\ sequences'[1] = sequences[1]
    /\ Len(sequences') > Len(sequences) =>
           /\ Len(sequences') = Len(sequences) + 1
           /\ Len(sequences') <= 2
           /\ Len(sequences') = 2 =>
                  DifferEverywhere(sequences'[1], sequences'[2])

\* C2: a search that returns returns exactly two sequences, each of which
\* satisfied the threshold when drawn and which differ at every site; the
\* first accepted candidate is never replaced, and a second one is accepted
\* only if it differs from the first at every site.
C2_DivergentPair == []C2_Returned /\ [][C2_Step]_vars

\* C3: the search makes at most max_iter draws (none on a negative budget)
\* and none once the pair is complete, and it ends in the exhaustion error
\* exactly when max_iter draws were made without completing a pair: a pair
\* completed on the last draw is returned.
C3_Exhaustion ==
    /\ counter <= (IF max_iter < 0 THEN 0 ELSE max_iter)
    /\ Len(sequences) <= 2
    /\ search_pc \in {"returned", "raised"} =>
           (search_pc = "raised" <=> (counter = max_iter /\ Len(sequences) < 2))

-----------------------------------------------------------------------------
(* Claims about the map, under SpecMap *)

ExplicitPasses ==
    {"fold(conf_list)", "set_partition_confs", "recalculate_partition_sum"}

\* An explicit-conformation pass has just completed with no target set.
ScoredWithoutTarget ==
    /\ last_op \in ExplicitPasses
    /\ last_err = "none"
    /\ target_conf = NoneConf

\* The fold energies of the i-th genotype over the supplied conformations.
EnergiesOf(i) ==
    {energy[genotypes[i], partition_confs[k]] : k \in DOMAIN partition_confs}

MinOf(S) == CHOOSE m \in S : \A e \in S : m <= e

\* The positions of the supplied list whose conformation has energy e for
\* the i-th genotype.
Attaining(i, e) ==
    {k \in DOMAIN partition_confs : energy[genotypes[i], partition_confs[k]] = e}

\* The sum of one Boltzmann term per supplied conformation.
SumOverConfs(i) ==
    [e \in EnergiesOf(i) |-> Cardinality(Attaining(i, e))]

\* C4: after explicit-conformation scoring with no target and a non-empty
\* conformation list, every genotype's native energy is the minimum of its
\* fold energies over the list, its native conformation is a supplied one
\* attaining that minimum, and its partition sum holds exactly one
\* Boltzmann term per supplied conformation.
C4_NativeIsMinimum ==
    (ScoredWithoutTarget /\ partition_confs # <<>>) =>
        \A i \in 1..Len(genotypes) :
            /\ nativeEs[i] = MinOf(EnergiesOf(i))
            /\ confs[i] \in Range(partition_confs)
            /\ energy[genotypes[i], confs[i]] = nativeEs[i]
            /\ partition_sum[i] = SumOverConfs(i)

\* C5: after explicit-conformation scoring with no target, a genotype is
\* marked folded exactly when one conformation of the list attains the
\* minimum energy, and the minimum is recorded also when it is shared.
C5_FoldedIffUniqueMinimum ==
    (ScoredWithoutTarget /\ partition_confs # <<>>) =>
        \A i \in 1..Len(genotypes) :
            /\ folded[i] <=>
                   Cardinality(Attaining(i, MinOf(EnergiesOf(i)))) = 1
            /\ nativeEs[i] = MinOf(EnergiesOf(i))

C6_State ==
    (/\ last_op \in {"fold(conf_list)", "fold(Conformations)", "set_target_conf"}
     /\ last_err = "none"
     /\ target_conf # NoneConf) =>
        \A i \in 1..Len(genotypes) :
            /\ confs[i] = target_conf
            /\ nativeEs[i] = energy[genotypes[i], target_conf]
            /\ last_op = "fold(conf_list)" => partition_sum[i] = SumOverConfs(i)
            /\ last_op = "fold(Conformations)" =>
                   partition_sum[i] = oracle_out[i].z

C6_Step ==
    last_op' = "set_target_conf" => partition_sum' = partition_sum

\* C6: with a target conformation set, after a completed fold in either mode
\* and after set_target_conf, every genotype's native conformation is the
\* target and its native energy its fold energy against the target, while
\* the partition sums are those summed over the conformation list (or
\* returned by the oracle) and set_target_conf does not alter them.
C6_TargetOverride == []C6_State /\ [][C6_Step]_vars

\* set_target_conf completed on a map scored against two conformations, the
\* target differing from the minimum-energy conformation of some genotype.
C6_Witness ==
    /\ last_op = "set_target_conf"
    /\ last_err = "none"
    /\ Len(partition_confs) = 2
    /\ \E i \in 1..Len(genotypes) :
           energy[genotypes[i], target_conf] > MinOf(EnergiesOf(i))

\* The thermodynamic records a reader of the map gets.
Records == <<attrs \cap RecordAttrs, nativeEs, confs, partition_sum, folded>>

C7_Step ==
    /\ last_op' = "fold()" => last_err' = NoScoringSource
    /\ (/\ last_op' \in {"fold()", "fold(conf_list)", "fold(Conformations)"}
        /\ last_err' # "none") => Records' = Records

\* C7: fold with neither an oracle nor a conformation list raises the
\* no-scoring-source error, and after this or any other failed fold the
\* records readable from the map are those stored before the call.
C7_FailedFoldKeepsRecords == [][C7_Step]_vars

\* The record a pass over conf_list computes for genotype g when g is the
\* only genotype of the map.
Alone(g, fresh) ==
    fold([genotypes |-> <<g>>, attrs |-> {"target_conf", "interaction_energies"},
          target_conf |-> target_conf, partition_confs |-> <<>>,
          nativeEs |-> <<>>, confs |-> <<>>, partition_sum |-> <<>>,
          folded |-> <<>>],
         "conf_list", partition_confs, <<>>, fresh)

\* C9: the record an explicit-conformation pass computes for a genotype
\* depends only on the genotype, the conformation list and the target: it is
\* the record the same pass computes for that genotype in a map that holds
\* it alone, whatever genotypes precede it.
C9_GenotypesIndependent ==
    (ScoredWithoutTarget /\ attrs = MapAttrs) =>
        \A i \in 1..Len(genotypes) : \A fresh \in Uninitialised(1) :
            LET alone == Alone(genotypes[i], fresh)
            IN  /\ alone.err = "none"
                /\ nativeEs[i] = alone.self.nativeEs[1]
                /\ confs[i] = alone.self.confs[1]
                /\ partition_sum[i] = alone.self.partition_sum[1]
                /\ folded[i] = alone.self.folded[1]

\* The map has been scored or loaded: it has its four record arrays.
ScoredOrLoaded == RecordAttrs \subseteq attrs

\* C10: once a map is scored or loaded, through any sequence of operations
\* the four record arrays each have exactly one entry per genotype, and the
\* genotype set is the one the map was built with.
C10_Lockstep ==
    ScoredOrLoaded =>
        (genotypes = GenotypeSpace
         /\ \A a \in RecordAttrs : Len(Self[a]) = Len(genotypes))

=============================================================================
